---- MODULE Spec2Model ----
(***************************************************************************)
(* Model of the books_api harvest-and-transform pipeline:                  *)
(*   scripts/scraper.py         BooksScraper and main()                    *)
(*   scripts/data_processor.py  DataProcessor.clean_data                   *)
(*                                                                         *)
(* Encodings.                                                              *)
(*   - A URL or a relative link is a record [path, num]: path is the       *)
(*     sequence of its "/"-separated segments (for a URL, those below the  *)
(*     site root) and num is the number written where a segment says {n},  *)
(*     as in "page-{n}.html" (0 when there is none).  A path ending in "/" *)
(*     ends with the segment "", so the site root "/" is <<"">>.           *)
(*   - Money is an integer number of pence (51.77 is 5177); NaN is the     *)
(*     value NaN below.                                                    *)
(*   - Time is counted in half seconds (time.sleep(1) is 2 ticks).         *)
(*   - A parsed page (BeautifulSoup) is a record of what the CSS selectors *)
(*     used by the scraper find in it.                                     *)
(*   - A Python call that may raise returns [exc, value].                  *)
(***************************************************************************)
EXTENDS Integers, Sequences, FiniteSets, TLC

VARIABLES
    pc,             \* position of main() / scrape_all_books()
    pages,          \* get_all_catalogue_pages: pages
    current_page,   \* get_all_catalogue_pages: current_page
    all_book_urls,  \* scrape_all_books: all_book_urls
    li,             \* scrape_all_books: position in catalogue_pages (1-based)
    i,              \* scrape_all_books: enumerate(all_book_urls, 1) counter
    books_data,     \* scrape_all_books: books_data
    checkpoints,    \* files data/checkpoint_{i}.csv written so far
    log,            \* logger.error records, in order
    err,            \* exception that left main(), "" when none
    clock,          \* wall clock, in half seconds
    fetches,        \* number of session.get calls issued
    lastFetch,      \* [kind, at] of the latest session.get
    site,           \* what the server answers for the listing pages
    faults,         \* fetches of the run so far that did not get the server's page
    soup_in,        \* scrape_book_details under test: the page retrieved
    details_out,    \* scrape_book_details under test: the dict returned
    href_in,        \* scrape_catalogue_page under test: the article's href
    link_out,       \* scrape_catalogue_page under test: book_links
    raw_df,         \* clean_data under test: the DataFrame passed in
    clean_df,       \* clean_data under test: the DataFrame returned
    categories_df,  \* process: the result of create_categories_data
    fs,             \* the processed files on disk: where they are, what they hold
    books_path,     \* DataService: self.books_path
    categories_path,    \* DataService: self.categories_path
    self_books_df,      \* DataService: self._books_df
    self_categories_df, \* DataService: self._categories_df
    result          \* DataService / routes: what the latest call returned

vars == <<pc, pages, current_page, all_book_urls, li, i, books_data, checkpoints,
          log, err, clock, fetches, lastFetch, site, faults,
          soup_in, details_out, href_in, link_out, raw_df, clean_df, categories_df,
          fs, books_path, categories_path, self_books_df, self_categories_df, result>>

\* the state of the query service and of the files it reads
apiVars == <<fs, books_path, categories_path, self_books_df, self_categories_df, result>>

fnVars == <<soup_in, details_out, href_in, link_out, raw_df, clean_df, categories_df,
            apiVars>>

-----------------------------------------------------------------------------
(* Bounds of the model *)

\* catalogue pages the server may have beyond the base page are 2..MaxPages
MaxPages == 4
\* article.product_pod entries on a listing page that has any
PerPage == 13
\* fetches of one run that time out or get a damaged page
MaxFaults == 1
\* rows of a raw harvest handed to clean_data
MaxRows == 3
\* segments of a relative link handed to the link normalizer
MaxSegs == 6

(* Program constants *)

\* scraper.py:180  if i % 50 == 0
CheckpointEvery == 50
\* scraper.py:163  time.sleep(1), in half seconds
ListingDelay == 2
\* scraper.py:177  time.sleep(0.5), in half seconds
DetailDelay == 1

-----------------------------------------------------------------------------
(* Generic helpers *)

NoExc == ""

Ok(v) == [exc |-> NoExc, value |-> v]

Raise(e) == [exc |-> e, value |-> 0]

\* an element found by select_one, and select_one's None
Elem(t) == [present |-> TRUE, text |-> t]

NoElem == [present |-> FALSE, text |-> ""]

\* str.strip() on the texts the model uses
Strip(s) ==
    CASE s = " Book A " -> "Book A"
      [] s = "Book A  " -> "Book A"
      [] s = " Poetry " -> "Poetry"
      [] s = " 22 " -> "22"
      [] s = "   " -> ""
      [] OTHER -> s

Max(S) == CHOOSE x \in S : \A y \in S : y <= x

-----------------------------------------------------------------------------
(* URLs *)

Url(path, n) == [path |-> path, num |-> n]

\* BooksScraper.__init__: base_url, the site root
base_url == Url(<<"">>, 0)

\* f"{self.base_url}catalogue/page-{n}.html"
PageUrl(n) == Url(<<"catalogue", "page-{n}.html">>, n)

-----------------------------------------------------------------------------
(* Fetch Client: BooksScraper.get_page *)

\* subclasses of requests.RequestException that session.get and
\* raise_for_status raise
RequestExceptions == {"Timeout", "ConnectionError", "HTTPError"}

\* the soup value None
NoSoup == [kind |-> "None"]

IsSoup(soup) == soup.kind # "None"

\* a server answer: failure is "" for a 2xx answer carrying soup
Answer(soup) == [failure |-> "", soup |-> soup]

Failure(e) == [failure |-> e, soup |-> NoSoup]

\* mutant of GetPage: no try/except around session.get and raise_for_status
GetPageUncaught(resp) ==
    IF resp.failure # "" THEN Raise(resp.failure) ELSE Ok(resp.soup)

\* get_page(url), given the server's answer: the soup, or None on a
\* RequestException; any other exception propagates
GetPage(resp) ==
    IF resp.failure \in RequestExceptions THEN Ok(NoSoup)
    ELSE IF resp.failure # "" THEN Raise(resp.failure)
    ELSE Ok(resp.soup)

\* what get_page writes with logger.error for this answer
GetPageLog(url, resp) ==
    IF resp.failure \in RequestExceptions
    THEN <<[src |-> "get_page", url |-> url]>>
    ELSE <<>>

-----------------------------------------------------------------------------
(* Detail Extractor: extract_rating, clean_price, scrape_book_details *)

\* rating_map, in dict order
RatingWords == <<"One", "Two", "Three", "Four", "Five">>

\* A rating class label is the sequence of the chunks it is written with
\* ("Three" is <<"Three">>, "NotThree" is <<"Not", "Three">>); `word in label`
\* is true when a chunk is the word.
WordIn(word, label) == \E k \in DOMAIN label : label[k] = word

\* extract_rating: the number of the first word of rating_map found in the label
extract_rating(rating_class) ==
    LET hits == {n \in DOMAIN RatingWords : WordIn(RatingWords[n], rating_class)}
    IN  IF hits = {} THEN 0 ELSE CHOOSE n \in hits : \A m \in hits : n <= m

\* clean_price: float(re.sub(r'[£,]', '', price_text)), in pence
clean_price(price_text) ==
    CASE price_text = "£51.77" -> Ok(5177)
      [] price_text = "£0.00" -> Ok(0)
      [] price_text = "£1,051.77" -> Ok(105177)
      [] price_text = "51.77" -> Ok(5177)
      [] OTHER -> Raise("ValueError")

\* int(text)
ParseInt(text) ==
    CASE text = "0" -> Ok(0)
      [] text = "3" -> Ok(3)
      [] text = "22" -> Ok(22)
      [] OTHER -> Raise("ValueError")

\* re.search(r'\d+', availability): the first run of digits, or no match
FirstInt(text) ==
    CASE text = "In stock (22 available)" -> Ok(22)
      [] text = "3 of 19 left" -> Ok(3)
      [] OTHER -> Raise("no match")

\* the dict {}
EmptyDict == <<>>

\* truth value of a dict
Truthy(d) == DOMAIN d # {}

\* .text of the result of select_one
TextOf(el) == IF el.present THEN Ok(Strip(el.text)) ELSE Raise("AttributeError")

\* the loop over table_rows: raises when a row has no td or no td:nth-child(2)
TableExc(rows) ==
    IF \E k \in DOMAIN rows : ~rows[k].td.present \/ ~rows[k].td2.present
    THEN "AttributeError" ELSE NoExc

\* product_info.get(key, default) after the loop (a later row overwrites)
InfoGet(rows, key, default) ==
    LET at == {k \in DOMAIN rows : Strip(rows[k].td.text) = key}
    IN  IF at = {} THEN default ELSE Strip(rows[Max(at)].td2.text)

\* the body of the try block of scrape_book_details
ExtractFields(soup, book_url) ==
    LET title == TextOf(soup.h1)
        price == TextOf(soup.price_color)
        price_value == IF price.exc = NoExc THEN clean_price(price.value) ELSE price
        availability == TextOf(soup.availability)
        in_stock ==
            IF availability.exc # NoExc THEN availability
            ELSE IF FirstInt(availability.value).exc = NoExc
                 THEN FirstInt(availability.value) ELSE Ok(0)
        rating ==
            IF ~soup.star_rating.present THEN Ok(0)
            ELSE IF Len(soup.star_rating.class) < 2 THEN Raise("IndexError")
            ELSE Ok(extract_rating(soup.star_rating.class[2]))
        description ==
            IF soup.description.present THEN Strip(soup.description.text) ELSE ""
        rows == soup.table
        category ==
            IF Len(soup.breadcrumb) > 2 THEN Strip(soup.breadcrumb[3]) ELSE "Unknown"
        tax == clean_price(InfoGet(rows, "Tax", "£0.00"))
        num_reviews == ParseInt(InfoGet(rows, "Number of reviews", "0"))
        excs == {title.exc, price_value.exc, in_stock.exc, rating.exc,
                 TableExc(rows), tax.exc, num_reviews.exc} \ {NoExc}
    IN  IF excs # {} THEN Raise(CHOOSE e \in excs : TRUE)
        ELSE Ok([title |-> title.value,
                 price |-> price_value.value,
                 availability |-> in_stock.value,
                 rating |-> rating.value,
                 description |-> description,
                 category |-> category,
                 upc |-> InfoGet(rows, "UPC", ""),
                 product_type |-> InfoGet(rows, "Product Type", ""),
                 tax |-> tax.value,
                 num_reviews |-> num_reviews.value,
                 url |-> book_url])

\* scrape_book_details(book_url), given the server's answer: the record, or {}
\* when the page is unavailable or anything in the try block raised
scrape_book_details(book_url, resp) ==
    LET got == GetPage(resp)
    IN  IF got.exc # NoExc THEN got
        ELSE IF ~IsSoup(got.value) THEN Ok(EmptyDict)
        ELSE IF ExtractFields(got.value, book_url).exc # NoExc THEN Ok(EmptyDict)
        ELSE ExtractFields(got.value, book_url)

\* what scrape_book_details and its get_page write with logger.error
DetailsLog(book_url, resp) ==
    IF GetPage(resp).exc # NoExc THEN <<>>
    ELSE IF ~IsSoup(GetPage(resp).value) THEN GetPageLog(book_url, resp)
    ELSE IF ExtractFields(GetPage(resp).value, book_url).exc # NoExc
         THEN <<[src |-> "scrape_book_details", url |-> book_url]>>
    ELSE <<>>

\* book_data['id'] = i
WithId(d, n) ==
    [title |-> d.title, price |-> d.price, availability |-> d.availability,
     rating |-> d.rating, description |-> d.description, category |-> d.category,
     upc |-> d.upc, product_type |-> d.product_type, tax |-> d.tax,
     num_reviews |-> d.num_reviews, url |-> d.url, id |-> n]

-----------------------------------------------------------------------------
(* Link Normalizer: the URL construction of scrape_catalogue_page *)

\* s.startswith('../../../'), s given by its segments
StartsWithUp3(segs) ==
    Len(segs) >= 4 /\ segs[1] = ".." /\ segs[2] = ".." /\ segs[3] = ".."

\* s.startswith('catalogue/')
StartsWithCatalogue(segs) == Len(segs) >= 2 /\ segs[1] = "catalogue"

\* relative_url.replace('../../../', ''): every occurrence, left to right
RECURSIVE RemoveUp3(_)
RemoveUp3(segs) ==
    IF segs = <<>> THEN <<>>
    ELSE IF StartsWithUp3(segs) THEN RemoveUp3(SubSeq(segs, 4, Len(segs)))
    ELSE <<Head(segs)>> \o RemoveUp3(Tail(segs))

\* the dot-segment loop of urllib.parse.urljoin
RECURSIVE ResolveDots(_, _)
ResolveDots(segments, resolved) ==
    IF segments = <<>> THEN resolved
    ELSE IF Head(segments) = ".."
         THEN ResolveDots(Tail(segments),
                  IF resolved = <<>> THEN <<>>
                  ELSE SubSeq(resolved, 1, Len(resolved) - 1))
    ELSE IF Head(segments) = "." THEN ResolveDots(Tail(segments), resolved)
    ELSE ResolveDots(Tail(segments), Append(resolved, Head(segments)))

\* urljoin(self.base_url, rel) for a relative path rel and the base path "/"
urljoin(rel) ==
    LET all == <<"", "">> \o rel.path
        n == Len(all)
        middle == SelectSeq(SubSeq(all, 2, n - 1), LAMBDA x : x # "")
        segments == <<all[1]>> \o middle \o <<all[n]>>
        dots == ResolveDots(segments, <<>>)
        resolved == IF all[n] \in {".", ".."} THEN Append(dots, "") ELSE dots
    IN  Url(IF resolved = <<>> \/ resolved = <<"">> THEN <<"">>
            ELSE IF Head(resolved) = "" THEN Tail(resolved)
            ELSE resolved, rel.num)

\* f'catalogue/{s}'
UnderCatalogue(segs, n) == Url(<<"catalogue">> \o segs, n)

\* mutant of BookUrl: the '../../../' branch is gone and the marker is left
\* to urljoin
BookUrlCollapsed(relative_url) ==
    IF StartsWithCatalogue(relative_url.path) THEN urljoin(relative_url)
    ELSE urljoin(UnderCatalogue(relative_url.path, relative_url.num))

\* the if/elif/else of scrape_catalogue_page that builds book_url
BookUrl(relative_url) ==
    IF StartsWithUp3(relative_url.path)
    THEN urljoin(UnderCatalogue(RemoveUp3(relative_url.path), relative_url.num))
    ELSE IF StartsWithCatalogue(relative_url.path) THEN urljoin(relative_url)
    ELSE urljoin(UnderCatalogue(relative_url.path, relative_url.num))

\* the loop over articles: one link per article that has an h3 a element
RECURSIVE BookLinks(_)
BookLinks(articles) ==
    IF articles = <<>> THEN <<>>
    ELSE IF Head(articles).has_link
         THEN <<BookUrl(Head(articles).href)>> \o BookLinks(Tail(articles))
    ELSE BookLinks(Tail(articles))

\* scrape_catalogue_page(page_url), given the server's answer
scrape_catalogue_page(resp) ==
    LET got == GetPage(resp)
    IN  IF got.exc # NoExc THEN got
        ELSE IF ~IsSoup(got.value) THEN Ok(<<>>)
        ELSE Ok(BookLinks(got.value.articles))

-----------------------------------------------------------------------------
(* The server, as the run sees it *)

\* the number of the k-th book of listing page n
BookNo(n, k) == (n - 1) * PerPage + k

\* the k-th article of listing page n: the site root links into catalogue/,
\* the pages under catalogue/ link beside themselves
SiteArticle(n, k) ==
    [has_link |-> TRUE,
     href |-> IF n = 1 THEN Url(<<"catalogue", "book_{n}", "index.html">>, BookNo(n, k))
              ELSE Url(<<"book_{n}", "index.html">>, BookNo(n, k))]

ListingSoup(articles) == [kind |-> "listing", articles |-> articles]

\* the server's answer for listing page n (n = 1 is base_url); a page number
\* beyond MaxPages does not exist
SiteAnswer(n) ==
    IF n > MaxPages \/ site[n] = "unavailable" THEN Failure("HTTPError")
    ELSE IF site[n] = "empty" THEN Answer(ListingSoup(<<>>))
    ELSE Answer(ListingSoup([k \in 1..PerPage |-> SiteArticle(n, k)]))

\* The sites a run is checked on: any answer for the
\* base page and for each page up to the first one without items; no page
\* exists after that one (the walk never asks for it).
Sites ==
    {s \in [1..MaxPages -> {"unavailable", "empty", "items"}] :
        \A n \in 2..MaxPages :
            (\E m \in 2..(n - 1) : s[m] # "items") => s[n] = "unavailable"}

\* a fetch may time out while the run's budget of transport failures lasts
Transient == IF faults < MaxFaults THEN {Failure("Timeout")} ELSE {}

\* what a fetch of listing page n may get: the server's answer, or a
\* transport failure
ListingAnswers(n) == {SiteAnswer(n)} \cup Transient

\* a complete item page
GoodDetail ==
    [kind |-> "detail",
     h1 |-> Elem(" Book A "),
     price_color |-> Elem("£51.77"),
     availability |-> Elem("In stock (22 available)"),
     star_rating |-> [present |-> TRUE, class |-> <<<<"star-rating">>, <<"Three">>>>],
     description |-> Elem("Text"),
     table |-> <<[td |-> Elem("UPC"), td2 |-> Elem("a897fe39")],
                 [td |-> Elem("Product Type"), td2 |-> Elem("Books")],
                 [td |-> Elem("Tax"), td2 |-> Elem("£0.00")],
                 [td |-> Elem("Number of reviews"), td2 |-> Elem("3")]>>,
     breadcrumb |-> <<"Home", "Books", " Poetry ">>]

\* The items of a run whose fetch may fail: the first ones and those around
\* the first checkpoint.
FaultItems ==
    (1..3) \cup ((CheckpointEvery - 2)..(CheckpointEvery + 2))

\* what the fetch of item n may get: the server's page, or, for the items
\* that may fail and while the budget lasts, a transport failure or a page
\* without its h1
DetailAnswers(n) ==
    {Answer(GoodDetail)} \cup
    (IF n \in FaultItems
     THEN Transient \cup {Answer([GoodDetail EXCEPT !.h1 = NoElem]) : e \in Transient}
     ELSE {})

IsFault(resp) == resp.failure = "Timeout" \/ resp = Answer([GoodDetail EXCEPT !.h1 = NoElem])

-----------------------------------------------------------------------------
(* The run: main() -> scrape_all_books() *)

Idle == [kind |-> "idle"]

\* the value None
None == [t |-> "none", v |-> 0, s |-> ""]

\* no query service is running and no processed file is on disk
ApiParked ==
    /\ fs = [home |-> "data/processed/", books |-> 0, categories |-> 0]
    /\ books_path = None /\ categories_path = None
    /\ self_books_df = None /\ self_categories_df = None
    /\ result = None

FnIdle ==
    /\ soup_in = Idle /\ details_out = EmptyDict
    /\ href_in = Idle /\ link_out = <<>>
    /\ raw_df = <<>> /\ clean_df = <<>>
    /\ categories_df = <<>>
    /\ ApiParked

Init ==
    /\ pc = "main"
    /\ pages = <<>>
    /\ current_page = 0
    /\ all_book_urls = <<>>
    /\ li = 0
    /\ i = 0
    /\ books_data = <<>>
    /\ checkpoints = {}
    /\ log = <<>>
    /\ err = ""
    /\ clock = 0
    /\ fetches = 0
    /\ lastFetch = [kind |-> "none", at |-> 0]
    /\ site \in Sites
    /\ faults = 0
    /\ FnIdle

\* session.get(url) is issued now
Fetch(kind) ==
    /\ fetches' = fetches + 1
    /\ lastFetch' = [kind |-> kind, at |-> clock]

\* an exception leaves scrape_all_books and main()'s except re-raises it
Raised(e) == pc' = "raised" /\ err' = e

\* scraper.py 133-134: pages = [self.base_url]; current_page = 1
Start ==
    /\ pc = "main"
    /\ pages' = <<base_url>>
    /\ current_page' = 1
    /\ pc' = "discover"
    /\ UNCHANGED <<all_book_urls, li, i, books_data, checkpoints, log, err, clock,
                   fetches, lastFetch, site, faults>>
    /\ UNCHANGED fnVars

\* mutant of StopDiscovery: a page without items does not end the walk
StopDiscoveryOnNoneOnly(soup) == ~IsSoup(soup)

\* scraper.py 141: not soup or not soup.select('article.product_pod')
StopDiscovery(soup) == ~IsSoup(soup) \/ soup.articles = <<>>

\* one iteration of the while True loop of get_all_catalogue_pages
Discover ==
    /\ pc = "discover"
    /\ \E resp \in ListingAnswers(current_page + 1) :
         LET page_url == PageUrl(current_page + 1)
             got == GetPage(resp)
         IN  /\ Fetch("listing")
             /\ log' = log \o GetPageLog(page_url, resp)
             /\ faults' = IF IsFault(resp) THEN faults + 1 ELSE faults
             /\ IF got.exc # NoExc
                THEN Raised(got.exc) /\ UNCHANGED <<pages, current_page, li>>
                ELSE IF StopDiscovery(got.value)
                THEN pc' = "listing" /\ li' = 1
                     /\ UNCHANGED <<pages, current_page, err>>
                ELSE /\ pages' = Append(pages, page_url)
                     /\ current_page' = current_page + 1
                     /\ UNCHANGED <<pc, li, err>>
    /\ UNCHANGED <<all_book_urls, i, books_data, checkpoints, clock, site>>
    /\ UNCHANGED fnVars

\* the number of the listing page a URL of pages names (base_url is page 1)
PageNo(url) == IF url = base_url THEN 1 ELSE url.num

\* scraper.py 161-162: book_urls = scrape_catalogue_page(page_url); extend
ScrapeCataloguePage ==
    /\ pc = "listing"
    /\ \E resp \in ListingAnswers(PageNo(pages[li])) :
         LET book_urls == scrape_catalogue_page(resp)
         IN  /\ Fetch("listing")
             /\ log' = log \o GetPageLog(pages[li], resp)
             /\ faults' = IF IsFault(resp) THEN faults + 1 ELSE faults
             /\ IF book_urls.exc # NoExc
                THEN Raised(book_urls.exc) /\ UNCHANGED all_book_urls
                ELSE /\ all_book_urls' = all_book_urls \o book_urls.value
                     /\ pc' = "listing_sleep"
                     /\ UNCHANGED err
    /\ UNCHANGED <<pages, current_page, li, i, books_data, checkpoints, clock, site>>
    /\ UNCHANGED fnVars

\* scraper.py 163: time.sleep(1), then the next page or the item loop
ListingSleep ==
    /\ pc = "listing_sleep"
    /\ clock' = clock + ListingDelay
    /\ IF li < Len(pages)
       THEN li' = li + 1 /\ pc' = "listing" /\ UNCHANGED i
       ELSE IF all_book_urls # <<>>
       THEN i' = 1 /\ pc' = "detail" /\ UNCHANGED li
       ELSE pc' = "return" /\ UNCHANGED <<li, i>>
    /\ UNCHANGED <<pages, current_page, all_book_urls, books_data, checkpoints, log,
                   err, fetches, lastFetch, site, faults>>
    /\ UNCHANGED fnVars

\* scraper.py 171-175: book_data = scrape_book_details(book_url); keep it if
\* it is not empty, with id = i
ScrapeBookDetails ==
    /\ pc = "detail"
    /\ \E resp \in DetailAnswers(i) :
         LET book_url == all_book_urls[i]
             book_data == scrape_book_details(book_url, resp)
         IN  /\ Fetch("detail")
             /\ log' = log \o DetailsLog(book_url, resp)
             /\ faults' = IF IsFault(resp) THEN faults + 1 ELSE faults
             /\ IF book_data.exc # NoExc
                THEN Raised(book_data.exc) /\ UNCHANGED books_data
                ELSE /\ books_data' =
                          IF Truthy(book_data.value)
                          THEN Append(books_data, WithId(book_data.value, i))
                          ELSE books_data
                     /\ pc' = "detail_sleep"
                     /\ UNCHANGED err
    /\ UNCHANGED <<pages, current_page, all_book_urls, li, i, checkpoints, clock, site>>
    /\ UNCHANGED fnVars

\* mutant of CheckpointDue: count the records kept, not the items visited
CheckpointDueBySuccesses(n, data) == Len(data) % CheckpointEvery = 0

\* scraper.py 180: if i % 50 == 0
CheckpointDue(n, data) == n % CheckpointEvery = 0

\* the for loop of scraper.py 169 moves on, or ends
NextItem ==
    IF i < Len(all_book_urls)
    THEN i' = i + 1 /\ pc' = "detail"
    ELSE pc' = "return" /\ UNCHANGED i

\* scraper.py 177-180: time.sleep(0.5), then the checkpoint test
DetailSleep ==
    /\ pc = "detail_sleep"
    /\ clock' = clock + DetailDelay
    /\ IF CheckpointDue(i, books_data)
       THEN pc' = "checkpoint" /\ UNCHANGED i
       ELSE NextItem
    /\ UNCHANGED <<pages, current_page, all_book_urls, li, books_data, checkpoints,
                   log, err, fetches, lastFetch, site, faults>>
    /\ UNCHANGED fnVars

\* scraper.py 181-182: DataFrame(books_data).to_csv(f'data/checkpoint_{i}.csv')
CheckpointFile(n, data) == [label |-> n, rows |-> data]

\* scraper.py 181-183: the write succeeds, or to_csv raises OSError (nothing
\* around it catches)
WriteCheckpoint ==
    /\ pc = "checkpoint"
    /\ \/ /\ checkpoints' = checkpoints \cup {CheckpointFile(i, books_data)}
          /\ NextItem
          /\ UNCHANGED err
       \/ /\ Raised("OSError: checkpoint")
          /\ UNCHANGED <<checkpoints, i>>
    /\ UNCHANGED <<pages, current_page, all_book_urls, li, books_data, log, clock,
                   fetches, lastFetch, site, faults>>
    /\ UNCHANGED fnVars

\* scraper.py 185-187: df = pd.DataFrame(books_data); return df
Return ==
    /\ pc = "return"
    /\ pc' = "save"
    /\ UNCHANGED <<pages, current_page, all_book_urls, li, i, books_data, checkpoints,
                   log, err, clock, fetches, lastFetch, site, faults>>
    /\ UNCHANGED fnVars

\* scraper.py 205: scraper.save_data(books_df) writes the file or raises
SaveData ==
    /\ pc = "save"
    /\ \/ pc' = "stats" /\ UNCHANGED err
       \/ Raised("OSError: save_data")
    /\ UNCHANGED <<pages, current_page, all_book_urls, li, i, books_data, checkpoints,
                   log, clock, fetches, lastFetch, site, faults>>
    /\ UNCHANGED fnVars

\* scraper.py 208-212: books_df['category'] on a frame built from no records
\* has no such column
Stats ==
    /\ pc = "stats"
    /\ IF books_data = <<>>
       THEN Raised("KeyError: category")
       ELSE pc' = "done" /\ UNCHANGED err
    /\ UNCHANGED <<pages, current_page, all_book_urls, li, i, books_data, checkpoints,
                   log, clock, fetches, lastFetch, site, faults>>
    /\ UNCHANGED fnVars

Next ==
    \/ Start
    \/ Discover
    \/ ScrapeCataloguePage
    \/ ListingSleep
    \/ ScrapeBookDetails
    \/ DetailSleep
    \/ WriteCheckpoint
    \/ Return
    \/ SaveData
    \/ Stats

Spec == Init /\ [][Next]_vars

-----------------------------------------------------------------------------
(* Properties of the run *)

\* positions of the run after get_all_catalogue_pages has returned
AfterDiscovery ==
    {"listing", "listing_sleep", "detail", "detail_sleep", "checkpoint", "return",
     "save", "stats", "done"}

\* positions of the run after the loop over catalogue_pages
AfterListing == {"detail", "detail_sleep", "checkpoint", "return", "save", "stats", "done"}

\* positions of the run after the loop over all_book_urls
AfterItems == {"return", "save", "stats", "done"}

\* get_page logged a failed fetch of url
FetchFailed(url) ==
    \E k \in DOMAIN log : log[k] = [src |-> "get_page", url |-> url]

\* scrape_book_details logged that the page of url could not be processed
ExtractFailed(url) ==
    \E k \in DOMAIN log : log[k] = [src |-> "scrape_book_details", url |-> url]

\* get_all_catalogue_pages has just returned
DiscoveryReturned == pc = "listing" /\ li = 1

\* C1: get_all_catalogue_pages returns base_url followed by page-2..page-n in
\* increasing order, where every page 2..n was available with items and
\* page-(n+1), the last page fetched, was unavailable or had no item entries;
\* that page is not in the result.
C1_DiscoveryStopsAtFirstBadPage ==
    pc \in AfterDiscovery =>
        LET n == Len(pages)
        IN  /\ n >= 1
            /\ pages = [k \in 1..n |-> IF k = 1 THEN base_url ELSE PageUrl(k)]
            /\ \A k \in 2..n :
                 /\ site[k] = "items"
                 /\ ~(DiscoveryReturned /\ FetchFailed(PageUrl(k)))
            /\ DiscoveryReturned =>
                 /\ fetches = n
                 /\ \/ FetchFailed(PageUrl(n + 1))
                    \/ (n + 1 <= MaxPages /\ site[n + 1] = "empty")

\* C1 witness: page 4 has zero item entries and the result is pages 1-3
C1_Witness ==
    /\ DiscoveryReturned
    /\ MaxPages >= 4 /\ site[4] = "empty" /\ ~FetchFailed(PageUrl(4))
    /\ pages = <<base_url, PageUrl(2), PageUrl(3)>>

\* the for loop over all_book_urls is past item m
Passed(m) ==
    \/ i > m
    \/ i = m /\ pc \in AfterItems
    \/ i = m /\ pc = "raised" /\ err # "OSError: checkpoint"

\* the records of books_data collected up to item m
UpTo(m) == SelectSeq(books_data, LAMBDA r : r.id <= m)

SiteLinks(n) ==
    IF SiteAnswer(n).failure # "" THEN <<>>
    ELSE BookLinks(SiteAnswer(n).soup.articles)

\* the links of the first n pages of `pages`, a failed page giving none
RECURSIVE LinksOfPages(_)
LinksOfPages(n) ==
    IF n = 0 THEN <<>>
    ELSE LinksOfPages(n - 1) \o
         (IF FetchFailed(pages[n]) THEN <<>> ELSE SiteLinks(PageNo(pages[n])))

\* the loop over catalogue_pages has just ended, or scrape_all_books returns
ListingReturned == (pc = "detail" /\ i = 1) \/ pc = "return"

\* item m has been taken by the loop over all_book_urls
Processed(m) == pc \in AfterListing \cup {"raised"} /\ (m < i \/ (m = i /\ pc # "detail"))

\* C4: a transport failure of a fetch never leaves scrape_all_books; a failed
\* listing page contributes no links and every other page contributes its
\* links; a failed item page contributes no record, and every other item whose
\* page was extracted has its record collected, in order, with its own url and
\* position; the loop ends only after the last item.
C4_TransportFailureIsolated ==
    /\ pc = "raised" => err \notin RequestExceptions
    /\ ListingReturned => all_book_urls = LinksOfPages(Len(pages))
    /\ pc \in AfterItems => i = Len(all_book_urls)
    /\ \A k \in DOMAIN books_data :
         /\ books_data[k].id \in DOMAIN all_book_urls
         /\ books_data[k].url = all_book_urls[books_data[k].id]
         /\ ~FetchFailed(books_data[k].url)
         /\ k > 1 => books_data[k - 1].id < books_data[k].id
    /\ \A m \in DOMAIN all_book_urls :
         Processed(m) =>
             ((\E k \in DOMAIN books_data : books_data[k].id = m)
               <=> ~(FetchFailed(all_book_urls[m]) \/ ExtractFailed(all_book_urls[m])))

\* C4 witness: the run is complete, a listing page and an item page failed to
\* transport, and the records of the other items were collected
C4_Witness ==
    /\ pc = "done"
    /\ \E k \in DOMAIN pages : FetchFailed(pages[k])
    /\ \E m \in DOMAIN all_book_urls :
         /\ FetchFailed(all_book_urls[m])
         /\ m > 1 /\ m < Len(all_book_urls)
    /\ Len(books_data) = Len(all_book_urls) - 1

\* C5 as claimed: the run ends in an error when, and only when, the base
\* catalogue URL was unreachable.
C5_FatalIffBaseUnreachable ==
    pc \in {"done", "raised"} => ((pc = "raised") <=> FetchFailed(base_url))

\* C6 as claimed: a checkpoint write failure never fails the run.
C6_CheckpointFailureTolerated ==
    ~(pc = "raised" /\ err = "OSError: checkpoint")

\* the delay that has to follow a fetch of this kind
DelayAfter(kind) == IF kind = "listing" THEN ListingDelay ELSE DetailDelay

\* C7 as claimed: every fetch is issued only after the delay of the fetch
\* before it has passed.
C7_DelayAfterEveryFetch ==
    [][(fetches' > fetches /\ lastFetch.kind # "none")
        => clock - lastFetch.at >= DelayAfter(lastFetch.kind)]_vars

-----------------------------------------------------------------------------
(* scrape_book_details on its own: every item page of a bounded family *)

\* the run's variables while a single function is exercised
RunParked ==
    /\ pages = <<>> /\ current_page = 0 /\ all_book_urls = <<>>
    /\ li = 0 /\ i = 0 /\ books_data = <<>> /\ checkpoints = {}
    /\ log = <<>> /\ err = "" /\ clock = 0 /\ fetches = 0
    /\ lastFetch = [kind |-> "none", at |-> 0]
    /\ site = [n \in 1..MaxPages |-> "unavailable"]
    /\ faults = 0

\* the key/value tables an item page may carry: td1 is the row's first td,
\* td2 the td that is the row's second child
Tables ==
    { GoodDetail.table,
      <<>>,
      \* th/td rows: the first td is also the second child
      <<[td |-> Elem("a897fe39"), td2 |-> Elem("a897fe39")],
        [td |-> Elem("3"), td2 |-> Elem("3")]>>,
      <<[td |-> NoElem, td2 |-> NoElem]>>,
      <<[td |-> Elem("UPC"), td2 |-> Elem("a897fe39")],
        [td |-> Elem("Tax"), td2 |-> Elem("N/A")]>>,
      <<[td |-> Elem("Number of reviews"), td2 |-> Elem("many")]>> }

DetailSoups ==
    [kind : {"detail"},
     h1 : {Elem(" Book A "), NoElem},
     price_color : {Elem("£51.77"), Elem("N/A"), NoElem},
     availability : {Elem("In stock (22 available)"), Elem("In stock"), NoElem},
     star_rating : {[present |-> FALSE, class |-> <<>>],
                    [present |-> TRUE, class |-> <<<<"star-rating">>, <<"Three">>>>],
                    [present |-> TRUE, class |-> <<<<"star-rating">>, <<"Zero">>>>],
                    [present |-> TRUE, class |-> <<<<"star-rating">>, <<"three">>>>],
                    [present |-> TRUE, class |-> <<<<"star-rating">>, <<"Not", "Three">>>>],
                    [present |-> TRUE, class |-> <<<<"star-rating">>, <<"Five", "Two">>>>],
                    [present |-> TRUE, class |-> <<<<"star-rating">>>>]},
     description : {Elem("Text"), NoElem},
     table : Tables,
     breadcrumb : {<<>>, <<"Home", "Books", " Poetry ">>}]

DetailsUrl == Url(<<"catalogue", "book_{n}", "index.html">>, 1)

InitDetails ==
    /\ pc = "details"
    /\ RunParked
    /\ soup_in \in DetailSoups
    /\ details_out = EmptyDict
    /\ href_in = Idle /\ link_out = <<>>
    /\ raw_df = <<>> /\ clean_df = <<>>
    /\ categories_df = <<>> /\ ApiParked

\* scrape_book_details(book_url) on a page that was retrieved
CallScrapeBookDetails ==
    /\ pc = "details"
    /\ details_out' = scrape_book_details(DetailsUrl, Answer(soup_in)).value
    /\ pc' = "returned"
    /\ UNCHANGED <<pages, current_page, all_book_urls, li, i, books_data, checkpoints,
                   log, err, clock, fetches, lastFetch, site, faults>>
    /\ UNCHANGED <<soup_in, href_in, link_out, raw_df, clean_df, categories_df, apiVars>>

NextDetails == CallScrapeBookDetails

SpecDetails == InitDetails /\ [][NextDetails]_vars

\* C3 as claimed: a retrieved item page gives a non-empty record exactly when
\* it has a title, whichever optional fields are missing or unparsable.
C3_OnlyMissingTitleDropsRecord ==
    pc = "returned" => (Truthy(details_out) <=> soup_in.h1.present)

\* the number the fixed table gives a label that is exactly one of its words
ExactRating(label) ==
    IF \E n \in DOMAIN RatingWords : label = <<RatingWords[n]>>
    THEN CHOOSE n \in DOMAIN RatingWords : label = <<RatingWords[n]>>
    ELSE 0

\* C14 as claimed: the rating of a record is the number the table One=1 ..
\* Five=5 gives its rating-class label when the label is exactly one of the
\* five words, and 0 for every other label (one that merely contains a word
\* included) and when there is no rating element.
C14_RatingExactTable ==
    (pc = "returned" /\ Truthy(details_out)) =>
        details_out.rating =
            IF soup_in.star_rating.present
            THEN ExactRating(soup_in.star_rating.class[2])
            ELSE 0

-----------------------------------------------------------------------------
(* The link normalizer on its own: every relative link of a bounded family *)

LinkSegments == {"..", "catalogue", "foo", "index.html"}

Hrefs ==
    UNION {[1..n -> LinkSegments] : n \in 1..MaxSegs}

InitLinks ==
    /\ pc = "links"
    /\ RunParked
    /\ soup_in = Idle /\ details_out = EmptyDict
    /\ href_in \in {Url(path, 0) : path \in Hrefs}
    /\ link_out = <<>>
    /\ raw_df = <<>> /\ clean_df = <<>>
    /\ categories_df = <<>> /\ ApiParked

\* scrape_catalogue_page(page_url) on a page with one article
CallScrapeCataloguePage ==
    /\ pc = "links"
    /\ \E has_link \in BOOLEAN :
         link_out' = scrape_catalogue_page(Answer(ListingSoup(
                         <<[has_link |-> has_link, href |-> href_in]>>))).value
    /\ pc' = "returned"
    /\ UNCHANGED <<pages, current_page, all_book_urls, li, i, books_data, checkpoints,
                   log, err, clock, fetches, lastFetch, site, faults>>
    /\ UNCHANGED <<soup_in, details_out, href_in, raw_df, clean_df, categories_df,
                   apiVars>>

NextLinks == CallScrapeCataloguePage

SpecLinks == InitLinks /\ [][NextLinks]_vars

Up3 == <<"..", "..", "..">>

\* a path without dot segments
Plain(segs) == \A k \in DOMAIN segs : segs[k] # ".."

\* the link scrape_catalogue_page returned for the article
Linked == pc = "returned" /\ link_out # <<>>

\* C8 as claimed: ../../../catalogue/foo/index.html resolves to
\* /catalogue/foo/index.html and catalogue/foo/index.html to itself.
C8_ExamplesAsClaimed ==
    Linked =>
        /\ href_in.path = Up3 \o <<"catalogue", "foo", "index.html">>
             => link_out[1].path = <<"catalogue", "foo", "index.html">>
        /\ href_in.path = <<"catalogue", "foo", "index.html">>
             => link_out[1].path = <<"catalogue", "foo", "index.html">>

\* C8 amended: a link that begins with ../../../ has the marker removed and
\* catalogue/ prefixed to the remainder, also when the remainder itself begins
\* with catalogue/ (../../../catalogue/foo/index.html resolves to
\* /catalogue/catalogue/foo/index.html, ../../../foo/index.html to
\* /catalogue/foo/index.html); otherwise a link that begins with catalogue/
\* resolves as it is; any other link has catalogue/ prefixed.
C8_ThreeBranches ==
    Linked =>
        LET href == href_in.path
            rest == SubSeq(href, 4, Len(href))
            out == link_out[1].path
        IN  /\ Len(link_out) = 1
            /\ (Len(href) >= 4 /\ SubSeq(href, 1, 3) = Up3 /\ Plain(rest))
                 => out = <<"catalogue">> \o rest
            /\ (Len(href) >= 2 /\ href[1] = "catalogue" /\ Plain(href))
                 => out = href
            /\ (Plain(href) /\ ~(Len(href) >= 2 /\ href[1] = "catalogue"))
                 => out = <<"catalogue">> \o href
            /\ href = Up3 \o <<"catalogue", "foo", "index.html">>
                 => out = <<"catalogue", "catalogue", "foo", "index.html">>
            /\ href = Up3 \o <<"foo", "index.html">>
                 => out = <<"catalogue", "foo", "index.html">>

\* C8 witness: the link ../../../catalogue/foo/index.html was normalized
C8_Witness ==
    /\ Linked
    /\ href_in.path = Up3 \o <<"catalogue", "foo", "index.html">>
    /\ link_out[1].path = <<"catalogue", "catalogue", "foo", "index.html">>

-----------------------------------------------------------------------------
(* Transform Stage: DataProcessor.clean_data *)

\* A cell of a DataFrame column: a number, a text, or the missing value NaN
Num(v) == [t |-> "num", v |-> v, s |-> ""]

Text(x) == [t |-> "str", v |-> 0, s |-> x]

NaN == [t |-> "nan", v |-> 0, s |-> ""]

\* mutant of DropDuplicates: the key is the title alone
DropDuplicatesByTitle(df) ==
    SelectSeq(df, LAMBDA r :
        \A k \in DOMAIN df : df[k].index < r.index => df[k].title # r.title)

\* df.drop_duplicates(subset=['title', 'upc']): a row goes when an earlier row
\* has the same title and the same upc (keep='first'); the rows left keep
\* their index labels
DropDuplicates(df) ==
    SelectSeq(df, LAMBDA r :
        \A k \in DOMAIN df :
            df[k].index < r.index => ~(df[k].title = r.title /\ df[k].upc = r.upc))

\* Series.str.strip(): NaN stays NaN
StrStrip(c) == IF c.t = "str" THEN Text(Strip(c.s)) ELSE NaN

\* str.title() on the texts the model uses
Title(x) ==
    CASE x = "poetry" -> "Poetry"
      [] x = "science fiction" -> "Science Fiction"
      [] x = "FICTION" -> "Fiction"
      [] OTHER -> x

\* Series.str.title()
StrTitle(c) == IF c.t = "str" THEN Text(Title(c.s)) ELSE NaN

\* Series.fillna(value)
FillNa(c, value) == IF c.t = "nan" THEN value ELSE c

\* pd.to_numeric(errors='coerce'): what does not parse as a number is NaN
ToNumeric(c) == IF c.t = "num" THEN c ELSE NaN

\* data_processor.py 47: bins=[0, 20, 40, 60, float('inf')], in pence; the
\* last edge is infinite
PriceBins == <<0, 2000, 4000, 6000>>

\* data_processor.py 48: labels
PriceLabels == <<"Budget", "Mid-range", "Premium", "Luxury">>

\* pd.cut(x, bins, labels) with its defaults right=True, include_lowest=False:
\* the label of the bin (lower, upper] holding x, NaN when there is none
Cut(c) ==
    LET n == Len(PriceBins)
        at == {k \in 1..n :
                 /\ PriceBins[k] < c.v
                 /\ (k < n => c.v <= PriceBins[k + 1])}
    IN  IF c.t # "num" \/ at = {} THEN NaN
        ELSE Text(PriceLabels[CHOOSE k \in at : TRUE])

\* (rating * 2 + num_reviews * 0.1).round(2), in hundredths
PopularityScore(rating, num_reviews) ==
    IF rating.t # "num" \/ num_reviews.t # "num" THEN NaN
    ELSE Num(rating.v * 200 + num_reviews.v * 10)

\* data_processor.py 26-50 on one row
CleanRow(r) ==
    LET rating == FillNa(ToNumeric(r.rating), Num(0))
        num_reviews == FillNa(ToNumeric(r.num_reviews), Num(0))
        price == ToNumeric(r.price)
    IN  [index |-> r.index,
         title |-> StrStrip(r.title),
         price |-> price,
         availability |-> FillNa(ToNumeric(r.availability), Num(0)),
         rating |-> rating,
         description |-> FillNa(StrStrip(FillNa(r.description, Text(""))), Text("")),
         category |-> StrTitle(StrStrip(r.category)),
         upc |-> r.upc,
         product_type |-> r.product_type,
         tax |-> r.tax,
         num_reviews |-> num_reviews,
         url |-> r.url,
         id |-> r.id,
         price_range |-> Cut(price),
         popularity_score |-> PopularityScore(rating, num_reviews)]

\* clean_data(df)
clean_data(df) ==
    LET kept == DropDuplicates(df)
    IN  [k \in DOMAIN kept |-> CleanRow(kept[k])]

\* the (title, upc) pairs of the raw harvests checked; a missing upc is NaN
RawTitles == {Text("Book A"), Text(" Book A "), Text("Book B")}

RawUpcs == {Text("u1"), NaN}

\* the prices of the raw harvests checked, in pence: around every bin edge
PricePoints == <<0, 1, 1999, 2000, 2001, 3999, 4000, 5999, 6000, 6001>>

\* row k of a raw harvest read by load_raw_data
RawRow(k, title, upc, price) ==
    [index |-> k - 1,
     title |-> title,
     price |-> Num(price),
     availability |-> Num(22),
     rating |-> Num(3),
     description |-> IF upc.t = "nan" THEN NaN ELSE Text("Text"),
     category |-> IF title = Text("Book B") THEN Text(" poetry ") ELSE Text("Fiction"),
     upc |-> upc,
     product_type |-> Text("Books"),
     tax |-> Num(0),
     num_reviews |-> Num(k),
     url |-> Text("url"),
     id |-> Num(k)]

InitClean ==
    /\ pc = "clean"
    /\ RunParked
    /\ soup_in = Idle /\ details_out = EmptyDict
    /\ href_in = Idle /\ link_out = <<>>
    /\ \E n \in 0..MaxRows :
         \E titles \in [1..n -> RawTitles], upcs \in [1..n -> RawUpcs],
            off \in 0..(Len(PricePoints) - 1) :
             raw_df = [k \in 1..n |->
                          RawRow(k, titles[k], upcs[k],
                                 PricePoints[((off + k) % Len(PricePoints)) + 1])]
    /\ clean_df = <<>>
    /\ categories_df = <<>> /\ ApiParked

\* clean_df = self.clean_data(raw_df)
CallCleanData ==
    /\ pc = "clean"
    /\ clean_df' = clean_data(raw_df)
    /\ pc' = "returned"
    /\ UNCHANGED <<pages, current_page, all_book_urls, li, i, books_data, checkpoints,
                   log, err, clock, fetches, lastFetch, site, faults>>
    /\ UNCHANGED <<soup_in, details_out, href_in, link_out, raw_df, categories_df,
                   apiVars>>

NextClean == CallCleanData

SpecClean == InitClean /\ [][NextClean]_vars

\* C9 as claimed: every non-negative price gets the label of its half-open
\* bucket [0,20), [20,40), [40,60), [60,inf), a price on a boundary falling in
\* the higher bucket.
C9_HalfOpenBuckets ==
    pc = "returned" =>
        \A k \in DOMAIN clean_df :
            LET p == clean_df[k].price.v
            IN  clean_df[k].price_range =
                    Text(IF p < 2000 THEN "Budget"
                         ELSE IF p < 4000 THEN "Mid-range"
                         ELSE IF p < 6000 THEN "Premium"
                         ELSE "Luxury")

\* the raw row with index label x
RawAt(x) == raw_df[x + 1]

\* C10: among the raw records that share (title, upc) only the first survives,
\* every record whose (title, upc) did not occur before survives, and the
\* survivors keep their original relative order.
C10_DedupFirstWins ==
    pc = "returned" =>
        /\ \A k \in DOMAIN clean_df :
             /\ clean_df[k].index \in 0..(Len(raw_df) - 1)
             /\ clean_df[k].upc = RawAt(clean_df[k].index).upc
             /\ clean_df[k].id = RawAt(clean_df[k].index).id
             /\ k > 1 => clean_df[k - 1].index < clean_df[k].index
        /\ \A x \in 0..(Len(raw_df) - 1) :
             (\E k \in DOMAIN clean_df : clean_df[k].index = x)
               <=> ~\E y \in 0..(x - 1) :
                       RawAt(y).title = RawAt(x).title /\ RawAt(y).upc = RawAt(x).upc

\* C10 witness: of three raw records the first and the third share
\* (title, upc), and the first two survive
C10_Witness ==
    /\ pc = "returned"
    /\ Len(raw_df) = 3
    /\ raw_df[1].title = raw_df[3].title /\ raw_df[1].upc = raw_df[3].upc
    /\ raw_df[1].title # raw_df[2].title
    /\ Len(clean_df) = 2
    /\ clean_df[1].index = 0 /\ clean_df[2].index = 1

\* C11 as claimed: the ids of the processed table are 1..N in output order,
\* whatever records deduplication removed.
C11_IdsDenseAfterDedup ==
    pc = "returned" =>
        \A k \in DOMAIN clean_df : clean_df[k].id = Num(k)

\* C17 as claimed: no two records of the processed table have the same
\* (title, upc) pair, also when raw titles differ only in surrounding
\* whitespace.
C17_CompositeKeyUnique ==
    pc = "returned" =>
        \A j, k \in DOMAIN clean_df :
            j # k => ~(clean_df[j].title = clean_df[k].title
                       /\ clean_df[j].upc = clean_df[k].upc)

-----------------------------------------------------------------------------
(* Transform Stage: DataProcessor.create_categories_data and process *)

\* the category texts of the model in the order groupby sorts its keys
CategoryOrder == <<"", "Fiction", "Poetry", "Science Fiction">>

\* the cells of a column that are not NaN, as a sequence of their numbers
Values(df, col) ==
    LET cells == [k \in DOMAIN df |-> df[k][col]]
        there == SelectSeq(cells, LAMBDA c : c.t = "num")
    IN  [k \in DOMAIN there |-> there[k].v]

RECURSIVE SumSeq(_)
SumSeq(xs) == IF xs = <<>> THEN 0 ELSE Head(xs) + SumSeq(Tail(xs))

\* 'count': the number of cells of the column that are not NaN
Count(df, col) == Num(Len(SelectSeq(df, LAMBDA r : r[col].t # "nan")))

\* 'mean' then round(2): NaN values are skipped, the mean of none is NaN; the
\* unit is a hundredth, the quotient is rounded to the nearest one (half up)
Mean(df, col, scale) ==
    LET xs == Values(df, col)
    IN  IF xs = <<>> THEN NaN
        ELSE Num((2 * scale * SumSeq(xs) + Len(xs)) \div (2 * Len(xs)))

\* 'min' and 'max': NaN values are skipped
Min(df, col) ==
    LET xs == Values(df, col)
    IN  IF xs = <<>> THEN NaN
        ELSE Num(CHOOSE x \in {xs[k] : k \in DOMAIN xs} :
                     \A k \in DOMAIN xs : x <= xs[k])

MaxOf(df, col) ==
    LET xs == Values(df, col)
    IN  IF xs = <<>> THEN NaN ELSE Num(Max({xs[k] : k \in DOMAIN xs}))

\* the row that agg and the renaming of the columns give for one group
CategoryRow(c, group) ==
    [category |-> Text(c),
     total_books |-> Count(group, "id"),
     avg_price |-> Mean(group, "price", 1),
     min_price |-> Min(group, "price"),
     max_price |-> MaxOf(group, "price"),
     avg_rating |-> Mean(group, "rating", 100)]

\* df.groupby('category') with its defaults sort=True, dropna=True: one group
\* per category text that occurs, in sorted order; a row whose category is NaN
\* is in no group
GroupKeys(df) ==
    SelectSeq(CategoryOrder, LAMBDA c :
        \E k \in DOMAIN df : df[k].category = Text(c))

\* create_categories_data(df)
create_categories_data(df) ==
    LET keys == GroupKeys(df)
    IN  [g \in DOMAIN keys |->
            CategoryRow(keys[g],
                        SelectSeq(df, LAMBDA r : r.category = Text(keys[g])))]

\* the categories and ids of the raw harvests handed to process: the scraper
\* writes an empty category as an empty CSV field, which read_csv reads as NaN
RawCategories == {Text("Fiction"), Text(" poetry "), NaN}

ProcessRow(k, title, category, has_id) ==
    [RawRow(k, title, Text("u1"), PricePoints[(k % Len(PricePoints)) + 1])
        EXCEPT !.category = category,
               !.id = IF has_id THEN Num(k) ELSE NaN]

\* process(): raw_df = self.load_raw_data()
InitProcess ==
    /\ pc = "clean"
    /\ RunParked
    /\ soup_in = Idle /\ details_out = EmptyDict
    /\ href_in = Idle /\ link_out = <<>>
    /\ \E n \in 0..MaxRows :
         \E titles \in [1..n -> {Text("Book A"), Text("Book B")}],
            cats \in [1..n -> RawCategories],
            ids \in [1..n -> BOOLEAN] :
             raw_df = [k \in 1..n |-> ProcessRow(k, titles[k], cats[k], ids[k])]
    /\ clean_df = <<>>
    /\ categories_df = <<>> /\ ApiParked

\* categories_df = self.create_categories_data(clean_df)
CallCreateCategoriesData ==
    /\ pc = "returned"
    /\ categories_df' = create_categories_data(clean_df)
    /\ pc' = "aggregated"
    /\ UNCHANGED <<pages, current_page, all_book_urls, li, i, books_data, checkpoints,
                   log, err, clock, fetches, lastFetch, site, faults>>
    /\ UNCHANGED <<soup_in, details_out, href_in, link_out, raw_df, clean_df, apiVars>>

NextProcess ==
    \/ CallCleanData
    \/ CallCreateCategoriesData

SpecProcess == InitProcess /\ [][NextProcess]_vars

\* the aggregate rows of category cell c
RowsOf(c) == {g \in DOMAIN categories_df : categories_df[g].category = c}

\* C12 as claimed: for every processed record set, records with a missing
\* category or id included, every category of the processed records has
\* exactly one aggregate row and the total_books of all rows sum to the number
\* of processed records.
C12_AggregatesCoverEveryRecord ==
    pc = "aggregated" =>
        /\ \A k \in DOMAIN clean_df :
             Cardinality(RowsOf(clean_df[k].category)) = 1
        /\ SumSeq([g \in DOMAIN categories_df |-> categories_df[g].total_books.v])
             = Len(clean_df)

-----------------------------------------------------------------------------
(* The processed files: DataProcessor.save_processed_data, pd.read_csv *)

\* processor runs whose output the query service may find on disk
MaxRuns == 2

\* the (title, upc) pairs of the harvest of a run, by row
RunKeys ==
    <<[title |-> Text("Book A"), upc |-> Text("u1")],
      [title |-> Text("Book B"), upc |-> Text("u1")],
      [title |-> Text("Book A"), upc |-> NaN],
      [title |-> Text("Book B"), upc |-> NaN]>>

\* the categories of the harvest of a run, by row; the third is an empty field
RunCategories == <<Text("Fiction"), Text(" poetry "), NaN, Text("Fiction")>>

\* the raw harvest that run v processes: run 1 has MaxRows rows, each later
\* run one row less, and the prices differ from run to run
Harvest(v) ==
    [k \in 1..(IF v > MaxRows THEN 0 ELSE MaxRows + 1 - v) |->
        LET key == RunKeys[((k - 1) % Len(RunKeys)) + 1]
        IN  [RawRow(k, key.title, key.upc,
                    PricePoints[((k + 3 * v) % Len(PricePoints)) + 1])
                EXCEPT !.category = RunCategories[((k - 1) % Len(RunCategories)) + 1],
                       !.rating = Num(((k + v) % 5) + 1)]]

\* df.to_csv(path, index=False) then pd.read_csv(path): the index labels are
\* not written and the frame read has the labels 0, 1, ..; an empty text is
\* written as an empty field, which is read as NaN
CsvRoundTrip(df) ==
    [k \in DOMAIN df |->
        [f \in DOMAIN df[k] |->
            IF f = "index" THEN k - 1
            ELSE IF df[k][f] = Text("") THEN NaN
            ELSE df[k][f]]]

\* books_processed.csv and categories.csv as run v writes them (v = 0: no file)
BooksFile(v) == CsvRoundTrip(clean_data(Harvest(v)))

CategoriesFile(v) ==
    CsvRoundTrip(create_categories_data(clean_data(Harvest(v))))

-----------------------------------------------------------------------------
(* Query Service: DataService *)

\* data_service.py 13-19; a path is the directory text followed by the file
possible_paths ==
    <<"data/processed/", "../data/processed/", "./data/processed/",
      "../../data/processed/", "/opt/render/project/src/data/processed/">>

\* data_service.py 43-44: the fallback directory
FallbackPath == "../data/processed/"

\* the directory a path text names: ./x is x
Canonical(base_path) ==
    IF base_path = "./data/processed/" THEN "data/processed/" ELSE base_path

\* the directories, as seen from the service, where the processor's
\* data/processed/ may be
Homes ==
    {"data/processed/", "../data/processed/",
     "/opt/render/project/src/data/processed/"}

FilePath(base_path, file) == [base |-> base_path, file |-> file]

\* os.path.exists(path) for a path of a processed file
Exists(path) == Canonical(path.base) = fs.home /\ fs[path.file] # 0

\* a loaded DataFrame
DataFrame(rows) == [t |-> "df", rows |-> rows]

IsNone(x) == x.t = "none"

\* data_service.py 25-33: the first base path under which both files exist
FoundPaths ==
    {n \in DOMAIN possible_paths :
        /\ Exists(FilePath(possible_paths[n], "books"))
        /\ Exists(FilePath(possible_paths[n], "categories"))}

\* data_service.py 78-88: numeric columns get 0 for NaN, text columns ''
NumericBookColumns ==
    {"price", "availability", "rating", "tax", "num_reviews", "popularity_score"}

StringBookColumns ==
    {"title", "description", "category", "upc", "product_type", "url", "price_range"}

FillBooks(df) ==
    [k \in DOMAIN df |->
        [f \in DOMAIN df[k] |->
            IF f \in NumericBookColumns THEN FillNa(ToNumeric(df[k][f]), Num(0))
            ELSE IF f \in StringBookColumns THEN FillNa(df[k][f], Text(""))
            ELSE df[k][f]]]

\* data_service.py 101-109
FillCategories(df) ==
    [k \in DOMAIN df |->
        [f \in DOMAIN df[k] |->
            IF f = "index" THEN df[k][f]
            ELSE IF f = "category" THEN FillNa(df[k][f], Text(""))
            ELSE FillNa(ToNumeric(df[k][f]), Num(0))]]

\* mutant of LoadBooks: the frame is read again on every call
LoadBooksEveryCall(cached) ==
    IF ~Exists(books_path) THEN Raise("FileNotFoundError")
    ELSE Ok(DataFrame(FillBooks(BooksFile(fs.books))))

\* _load_books(): the frame held in self._books_df, read first when there is
\* none; FileNotFoundError when there is none and no file
LoadBooks(cached) ==
    IF ~IsNone(cached) THEN Ok(cached)
    ELSE IF ~Exists(books_path) THEN Raise("FileNotFoundError")
    ELSE Ok(DataFrame(FillBooks(BooksFile(fs.books))))

\* _load_categories()
LoadCategories(cached) ==
    IF ~IsNone(cached) THEN Ok(cached)
    ELSE IF ~Exists(categories_path) THEN Raise("FileNotFoundError")
    ELSE Ok(DataFrame(FillCategories(CategoriesFile(fs.categories))))

\* self._books_df / self._categories_df after a load: set when the load
\* returned a frame
Held(cached, loaded) == IF loaded.exc = NoExc THEN loaded.value ELSE cached

\* DataFrame.to_dict('records') for one row: the columns, without the index
ToDict(r) == [f \in (DOMAIN r) \ {"index"} |-> r[f]]

\* _clean_for_json on a value: NaN becomes None, a bool becomes an int
CleanForJson(c) == IF c.t = "nan" THEN None ELSE c

\* _clean_for_json(df.to_dict('records'))
Records(rows) ==
    [k \in DOMAIN rows |->
        [f \in DOMAIN ToDict(rows[k]) |-> CleanForJson(rows[k][f])]]

\* truth value of an Optional[int] or Optional[str] argument
Given(arg) == (arg.t = "num" /\ arg.v # 0) \/ (arg.t = "str" /\ arg.s # "")

\* df.iloc[start_idx:end_idx] for start_idx >= 0 and end_idx >= 0
ILoc(rows, start_idx, end_idx) ==
    SubSeq(rows, start_idx + 1, IF end_idx < Len(rows) THEN end_idx ELSE Len(rows))

\* mutant of Paginate: the slice ends at limit, not at offset + limit
PaginateEndAtLimit(rows, limit, offset) ==
    ILoc(rows, offset, IF Given(limit) THEN limit.v ELSE Len(rows))

\* data_service.py 119-123: the page of the frame
Paginate(rows, limit, offset) ==
    ILoc(rows, offset, IF Given(limit) THEN offset + limit.v ELSE Len(rows))

\* get_all_books(limit, offset) on the loaded frame
get_all_books(df, limit, offset) ==
    [books |-> Records(Paginate(df.rows, limit, offset)),
     total |-> Len(df.rows),
     offset |-> offset,
     limit |-> IF Given(limit) THEN limit.v ELSE Len(df.rows)]

\* get_book_by_id(book_id) on the loaded frame: the first row with the id
get_book_by_id(df, book_id) ==
    LET book == SelectSeq(df.rows, LAMBDA r : r.id = Num(book_id))
    IN  IF book = <<>> THEN None ELSE Records(book)[1]

\* Series.str.contains(pat, case=False, na=False) for the patterns and texts
\* of the model
Contains(text, pat) ==
    CASE pat = "book" -> text \in {"Book A", "Book B"}
      [] pat = "book a" -> text = "Book A"
      [] pat = "fic" -> text \in {"Fiction", "Science Fiction"}
      [] pat = "poetry" -> text = "Poetry"
      [] OTHER -> FALSE

\* data_service.py 157-170: the rows that pass the filters that are given
Filtered(rows, f) ==
    SelectSeq(rows, LAMBDA r :
        /\ Given(f.title) => (r.title.t = "str" /\ Contains(r.title.s, f.title.s))
        /\ Given(f.category) =>
             (r.category.t = "str" /\ Contains(r.category.s, f.category.s))
        /\ ~IsNone(f.min_price) => (r.price.t = "num" /\ r.price.v >= f.min_price.v)
        /\ ~IsNone(f.max_price) => (r.price.t = "num" /\ r.price.v <= f.max_price.v)
        /\ ~IsNone(f.min_rating) => (r.rating.t = "num" /\ r.rating.v >= f.min_rating.v))

\* search_books(title, category, min_price, max_price, min_rating, limit,
\* offset) on the loaded frame
search_books(df, f, limit, offset) ==
    LET rows == Filtered(df.rows, f)
    IN  [books |-> Records(Paginate(rows, limit, offset)),
         total |-> Len(rows),
         offset |-> offset,
         limit |-> IF Given(limit) THEN limit.v ELSE Len(rows),
         filters_applied |-> f]

\* get_all_categories() on the loaded frame
get_all_categories(df) == Records(df.rows)

\* Series.value_counts().to_dict(): the values that occur, each with the
\* number of rows that have it
ValueCounts(rows, col) ==
    [x \in {rows[k][col] : k \in DOMAIN rows} |->
        Cardinality({k \in DOMAIN rows : rows[k][col] = x})]

\* data_service.py 211-220: 0.0 for an empty column; the mean is the
\* fraction sum/n
PriceStats(rows) ==
    IF rows = <<>> THEN [min |-> Num(0), max |-> Num(0), avg |-> [sum |-> 0, n |-> 1]]
    ELSE [min |-> Min(rows, "price"),
          max |-> MaxOf(rows, "price"),
          avg |-> [sum |-> SumSeq(Values(rows, "price")), n |-> Len(rows)]]

\* bool(os.path.exists(path)) after _clean_for_json: an int
ExistsFlag(path) == IF Exists(path) THEN Num(1) ELSE Num(0)

\* the dict built at data_service.py 230-240 from the two frames; the model
\* has fewer than ten categories, so head(10) keeps them all
StatsDict(books_df, cats_df) ==
    [total_books |-> Len(books_df.rows),
     total_categories |-> Len(cats_df.rows),
     price_range |-> PriceStats(books_df.rows),
     rating_distribution |-> ValueCounts(books_df.rows, "rating"),
     books_by_category |-> ValueCounts(books_df.rows, "category"),
     data_freshness |-> [books_file_exists |-> ExistsFlag(books_path),
                         categories_file_exists |-> ExistsFlag(categories_path)]]

\* get_data_stats(), given what the two loads returned: the statistics, or
\* the error dict when a load raised
get_data_stats(books, cats) ==
    IF books.exc # NoExc THEN [error |-> books.exc, data_available |-> FALSE]
    ELSE IF cats.exc # NoExc THEN [error |-> cats.exc, data_available |-> FALSE]
    ELSE StatsDict(books.value, cats.value)

\* mutant of HealthStatus: any answer of get_data_stats counts as healthy
HealthStatusAlwaysHealthy(data_stats) == "healthy"

\* health.py 17-22
HealthStatus(data_stats) ==
    IF "error" \in DOMAIN data_stats THEN "unhealthy" ELSE "healthy"

\* get_data_stats errors one service process may log
MaxErrors == 1

runVars == <<pages, current_page, all_book_urls, li, i, books_data, checkpoints,
             err, clock, fetches, lastFetch, site, faults>>

procVars == <<soup_in, details_out, href_in, link_out, raw_df, clean_df, categories_df>>

ProcIdle ==
    /\ soup_in = Idle /\ details_out = EmptyDict
    /\ href_in = Idle /\ link_out = <<>>
    /\ raw_df = <<>> /\ clean_df = <<>>
    /\ categories_df = <<>>

\* the value a call returned, or the exception it raised
Returned(op, args, exc, value) ==
    [op |-> op, args |-> args, exc |-> exc, value |-> value]

\* DataService.__init__
Construct ==
    /\ pc = "new"
    /\ LET base_path ==
               IF FoundPaths = {} THEN FallbackPath
               ELSE possible_paths[CHOOSE n \in FoundPaths : \A m \in FoundPaths : n <= m]
       IN  /\ books_path' = FilePath(base_path, "books")
           /\ categories_path' = FilePath(base_path, "categories")
    /\ log' = IF FoundPaths = {}
              THEN Append(log, [src |-> "__init__", error |-> "not found"])
              ELSE log
    /\ self_books_df' = None
    /\ self_categories_df' = None
    /\ pc' = "serving"
    /\ UNCHANGED <<runVars, procVars, fs, result>>

\* DataService.get_all_books(limit, offset)
GetAllBooks(limit, offset) ==
    /\ pc = "serving"
    /\ LET df == LoadBooks(self_books_df)
       IN  /\ self_books_df' = Held(self_books_df, df)
           /\ result' = Returned("get_all_books", [limit |-> limit, offset |-> offset],
                                 df.exc,
                                 IF df.exc = NoExc
                                 THEN get_all_books(df.value, limit, offset)
                                 ELSE None)
    /\ pc' = "responded"
    /\ UNCHANGED <<runVars, procVars, log, fs, books_path, categories_path,
                   self_categories_df>>

\* DataService.get_book_by_id(book_id)
GetBookById(book_id) ==
    /\ pc = "serving"
    /\ LET df == LoadBooks(self_books_df)
       IN  /\ self_books_df' = Held(self_books_df, df)
           /\ result' = Returned("get_book_by_id", [book_id |-> book_id], df.exc,
                                 IF df.exc = NoExc
                                 THEN get_book_by_id(df.value, book_id)
                                 ELSE None)
    /\ pc' = "responded"
    /\ UNCHANGED <<runVars, procVars, log, fs, books_path, categories_path,
                   self_categories_df>>

\* DataService.search_books(title, category, min_price, max_price,
\* min_rating, limit, offset)
SearchBooks(f, limit, offset) ==
    /\ pc = "serving"
    /\ LET df == LoadBooks(self_books_df)
       IN  /\ self_books_df' = Held(self_books_df, df)
           /\ result' = Returned("search_books",
                                 [filters |-> f, limit |-> limit, offset |-> offset],
                                 df.exc,
                                 IF df.exc = NoExc
                                 THEN search_books(df.value, f, limit, offset)
                                 ELSE None)
    /\ pc' = "responded"
    /\ UNCHANGED <<runVars, procVars, log, fs, books_path, categories_path,
                   self_categories_df>>

\* DataService.get_all_categories()
GetAllCategories ==
    /\ pc = "serving"
    /\ LET df == LoadCategories(self_categories_df)
       IN  /\ self_categories_df' = Held(self_categories_df, df)
           /\ result' = Returned("get_all_categories", None, df.exc,
                                 IF df.exc = NoExc
                                 THEN get_all_categories(df.value)
                                 ELSE None)
    /\ pc' = "responded"
    /\ UNCHANGED <<runVars, procVars, log, fs, books_path, categories_path,
                   self_books_df>>

\* health_check(): get_data_stats() loads the books, then, when that did not
\* raise, the categories; a load that raised is logged and gives the error dict
HealthCheck ==
    /\ pc = "serving"
    /\ LET books == LoadBooks(self_books_df)
           cats == IF books.exc = NoExc THEN LoadCategories(self_categories_df)
                   ELSE Raise(books.exc)
           data_stats == get_data_stats(books, cats)
           failed == "error" \in DOMAIN data_stats
       IN  /\ failed =>
                Len(SelectSeq(log, LAMBDA e : e.src = "get_data_stats")) < MaxErrors
           /\ self_books_df' = Held(self_books_df, books)
           /\ self_categories_df' =
                IF books.exc = NoExc THEN Held(self_categories_df, cats)
                ELSE self_categories_df
           /\ log' = IF failed
                     THEN Append(log, [src |-> "get_data_stats",
                                       error |-> data_stats.error])
                     ELSE log
           /\ result' = Returned("health_check", None, NoExc,
                                 [status |-> HealthStatus(data_stats),
                                  data_status |-> data_stats])
    /\ pc' = "responded"
    /\ UNCHANGED <<runVars, procVars, fs, books_path, categories_path>>

\* the route returns and the service waits for the next request
Respond ==
    /\ pc = "responded"
    /\ pc' = "serving"
    /\ result' = None
    /\ UNCHANGED <<runVars, procVars, log, fs, books_path, categories_path,
                   self_books_df, self_categories_df>>

\* save_processed_data of run v writes books_processed.csv
WriteBooksFile(v) ==
    /\ pc = "serving"
    /\ fs' = [fs EXCEPT !.books = v]
    /\ UNCHANGED <<pc, runVars, procVars, log, books_path, categories_path,
                   self_books_df, self_categories_df, result>>

\* save_processed_data of run v writes categories.csv
WriteCategoriesFile(v) ==
    /\ pc = "serving"
    /\ fs' = [fs EXCEPT !.categories = v]
    /\ UNCHANGED <<pc, runVars, procVars, log, books_path, categories_path,
                   self_books_df, self_categories_df, result>>

\* a processed file is deleted
RemoveFile(file) ==
    /\ pc = "serving"
    /\ fs[file] # 0
    /\ fs' = [fs EXCEPT ![file] = 0]
    /\ UNCHANGED <<pc, runVars, procVars, log, books_path, categories_path,
                   self_books_df, self_categories_df, result>>

NoFilter ==
    [title |-> None, category |-> None, min_price |-> None, max_price |-> None,
     min_rating |-> None]

\* the service process starts with any of the processed files on disk
InitService ==
    /\ pc = "new"
    /\ RunParked
    /\ ProcIdle
    /\ fs \in [home : Homes, books : 0..MaxRuns, categories : 0..MaxRuns]
    /\ books_path = None /\ categories_path = None
    /\ self_books_df = None /\ self_categories_df = None
    /\ result = None

NextService ==
    \/ Construct
    \/ \E limit \in {None, Num(1)}, offset \in {0, 1} : GetAllBooks(limit, offset)
    \/ \E book_id \in {1, MaxRows + 2} : GetBookById(book_id)
    \/ \E f \in {NoFilter, [NoFilter EXCEPT !.category = Text("fic")]} :
         SearchBooks(f, None, 0)
    \/ GetAllCategories
    \/ HealthCheck
    \/ Respond
    \/ \E v \in 1..MaxRuns : WriteBooksFile(v)
    \/ \E v \in 1..MaxRuns : WriteCategoriesFile(v)
    \/ \E file \in {"books", "categories"} : RemoveFile(file)

SpecService == InitService /\ [][NextService]_vars

\* a health check has just answered
HealthAnswered == pc = "responded" /\ result.op = "health_check"

\* the table can be loaded: the service holds it or its file is where the
\* service looks for it
Loadable(held, path) == ~IsNone(held) \/ Exists(path)

TableStats(d) ==
    [total_books |-> d.total_books,
     total_categories |-> d.total_categories,
     price_range |-> d.price_range,
     rating_distribution |-> d.rating_distribution,
     books_by_category |-> d.books_by_category]

\* a call answers in this step
Answers == pc = "serving" /\ pc' = "responded"

-----------------------------------------------------------------------------
(* Pagination: get_all_books and search_books on every table and page *)

\* the limit and offset arguments of the calls checked
Limits == {None} \cup {Num(n) : n \in 0..(MaxRows + 1)}

Offsets == 0..(MaxRows + 1)

\* the filters of the calls checked
Filters ==
    {NoFilter,
     [NoFilter EXCEPT !.title = Text("")],
     [NoFilter EXCEPT !.title = Text("book")],
     [NoFilter EXCEPT !.title = Text("book a")],
     [NoFilter EXCEPT !.category = Text("fic")],
     [NoFilter EXCEPT !.min_price = Num(2000)],
     [NoFilter EXCEPT !.max_price = Num(2000)],
     [NoFilter EXCEPT !.min_rating = Num(4)],
     [NoFilter EXCEPT !.title = Text("book"), !.min_price = Num(2000)]}

\* the service was constructed with the output of a run in data/processed/
InitQuery ==
    /\ pc = "serving"
    /\ RunParked
    /\ ProcIdle
    /\ \E v \in 1..(MaxRows + 1) :
         fs = [home |-> "data/processed/", books |-> v, categories |-> v]
    /\ books_path = FilePath("data/processed/", "books")
    /\ categories_path = FilePath("data/processed/", "categories")
    /\ self_books_df = None /\ self_categories_df = None
    /\ result = None

NextQuery ==
    \/ \E limit \in Limits, offset \in Offsets : GetAllBooks(limit, offset)
    \/ \E f \in Filters, limit \in Limits, offset \in Offsets :
         SearchBooks(f, limit, offset)
    \/ Respond

SpecQuery == InitQuery /\ [][NextQuery]_vars

\* a paginated call has just answered
PageAnswered ==
    /\ pc = "responded"
    /\ result.op \in {"get_all_books", "search_books"}
    /\ result.exc = NoExc

\* the table the call paginates, as records
Matching ==
    Records(IF result.op = "search_books"
            THEN Filtered(self_books_df.rows, result.args.filters)
            ELSE self_books_df.rows)

\* C15: for offset >= 0 and limit >= 1 the books returned are the records at
\* positions offset .. min(offset + limit, T) - 1 of the T matching records, in
\* table order (at most limit, none when offset >= T); with no limit they are
\* the records from offset to the end; total is T.
C15_PageIsTheSlice ==
    (PageAnswered /\ (IsNone(result.args.limit) \/ result.args.limit.v >= 1)) =>
        LET T == Len(Matching)
            offset == result.args.offset
            last == IF IsNone(result.args.limit) \/ offset + result.args.limit.v > T
                    THEN T ELSE offset + result.args.limit.v
            books == result.value.books
        IN  /\ result.value.total = T
            /\ Len(books) = IF last > offset THEN last - offset ELSE 0
            /\ \A j \in DOMAIN books : books[j] = Matching[offset + j]
            /\ ~IsNone(result.args.limit) => Len(books) <= result.args.limit.v
            /\ offset >= T => books = <<>>

\* C15 witness: a filtered search with offset 1 and limit 1 over three matching
\* records returns the second one
C15_Witness ==
    /\ PageAnswered
    /\ result.op = "search_books"
    /\ Given(result.args.filters.title)
    /\ result.args.offset = 1
    /\ result.args.limit = Num(1)
    /\ result.value.total = 3
    /\ Len(result.value.books) = 1
    /\ result.value.books[1].id = Num(2)

====
